---- MODULE Spec2Model ----
(***************************************************************************)
(* The integration probes of zik_zak: check_recipes.py and                 *)
(* test_realistic_product.py.  Each scenario function is a sequential      *)
(* client of the accounting server: it sends one blocking HTTP request at  *)
(* a time, the server answers with a response or the call raises, and the  *)
(* code after the call prints to stdout and either goes on or returns.     *)
(***************************************************************************)
EXTENDS Integers, Sequences, FiniteSets, TLC

VARIABLES
    fn,       \* the scenario function being executed
    pc,       \* the HTTP call the function is at, or "done"
    net,      \* the request in flight (the function is blocked in requests.get/post)
    reply,    \* the outcome of the call in flight, once the server has produced it
    sent,     \* every request issued by this invocation, in order
    replies,  \* every outcome received by this invocation, in order
    out,      \* the lines printed to stdout
    ret,      \* the function's return value: "None" while it runs
    raised    \* the exception that left the function, "None" if none did

vars == <<fn, pc, net, reply, sent, replies, out, ret, raised>>

----------------------------------------------------------------------------
(* Bounds of the model *)

MaxRecipes == 3       \* keys in a /recipes mapping
MaxHistory == 2       \* records in a /transactions list, every list up to it
MaxLedger == 7        \* records in the longer lists of well-formed records
MaxCents == 12        \* small prices 0..MaxCents are all enumerated

----------------------------------------------------------------------------
(* Python and JSON values *)

SERVER_URL == "http://localhost:3003"

ProductId == "prod_laptop_gaming_001"

IphoneId == "prod_smartphone_flagship_002"

Marker == "realistic"

\* Python's `needle in hay` on two strings
Contains(needle, hay) ==
    \E i \in 1..(Len(hay) - Len(needle) + 1) :
        SubSeq(hay, i, i + Len(needle) - 1) = needle

\* dict.get(key, default) on a JSON object held as a record
Get(obj, key, default) == IF key \in DOMAIN obj THEN obj[key] ELSE default

NoRequest == [method |-> "none"]

NoReply == [kind |-> "none"]

Line(text, args) == [text |-> text, args |-> args]

\* what a block of code did: the lines it printed, the exception it raised
\* ("None" if none), the value it returned ("None" if it fell through)
Ran(lines, exc, value) == [out |-> lines, exc |-> exc, ret |-> value]

----------------------------------------------------------------------------
(* What the server may answer.  A call either raises or returns a response *)
(* with a status code and a body; a body is JSON or it is not.             *)

Raise(exc) == [kind |-> "raise", exc |-> exc]

Response(status, body) == [kind |-> "response", status |-> status, body |-> body]

NotJson == [json |-> FALSE, text |-> "Internal Server Error"]

Json(val) == [json |-> TRUE, val |-> val]

Object(fields) == [type |-> "object", fields |-> fields]

Array(items) == [type |-> "array", items |-> items]

\* requests raises ConnectionError when the server is not reachable; any other
\* failure of the call (a timeout, say) is another exception class
Raises == {Raise("ConnectionError"), Raise("Timeout")}

Failures == {Response(404, NotJson), Response(500, NotJson)}

SeqsUpTo(S, n) == UNION {[1..k -> S] : k \in 0..n}

\* recipe descriptors: every field is optional
Recipes ==
    { [name |-> "create_realistic_product",
       info |-> [description |-> "Create a product", inputs |-> <<"id", "name">>,
                 operations_count |-> "12"]],
      [name |-> "read_realistic_product", info |-> <<>>],
      [name |-> "transfer", info |-> [description |-> "Move an amount"]],
      [name |-> "create_product", info |-> <<>>] }

\* a JSON mapping keeps the order of its keys, and its keys are distinct
RecipeMappings ==
    { m \in SeqsUpTo(Recipes, MaxRecipes) :
        \A i, j \in 1..Len(m) : m[i].name = m[j].name => i = j }

RecipeBodies == {NotJson, Json(Array(<<>>))} \cup {Json(Object(m)) : m \in RecipeMappings}

----------------------------------------------------------------------------
(* try/except: the body of the try block ran; if it raised, h is what the  *)
(* except clauses of the function do with body.exc: what is printed,       *)
(* returned and re-raised.                                                  *)

Try(body, h) ==
    IF body.exc = "None" THEN body
    ELSE Ran(body.out \o h.out, h.exc, h.ret)

\* response.json(): the decoded body, or JSONDecodeError
IsJson(o) == o.body.json

----------------------------------------------------------------------------
(* check_recipes.py *)

\* recipes.keys(), in the mapping's order
Keys(recipes) == [i \in 1..Len(recipes) |-> recipes[i].name]

\* recipes[name]
Lookup(recipes, name) ==
    (CHOOSE item \in {recipes[i] : i \in 1..Len(recipes)} : item.name = name).info

\* faulty variant: name.startswith("realistic") in place of "realistic" in name
RealisticPrefixed(recipes) ==
    SelectSeq(Keys(recipes), LAMBDA name : SubSeq(name, 1, Len(Marker)) = Marker)

\* [name for name in recipes.keys() if "realistic" in name]
RealisticRecipes(recipes) ==
    SelectSeq(Keys(recipes), LAMBDA name : Contains(Marker, name))

\* the lines printed for one realistic recipe
DescribeRecipe(recipes, name) ==
    LET recipe == Lookup(recipes, name)
    IN << Line("   {name}", <<name>>),
          Line("      Description: ", <<Get(recipe, "description", "No description")>>),
          Line("      Inputs: {} parameters", <<Len(Get(recipe, "inputs", <<>>))>>),
          Line("      Operations: {} steps", <<Get(recipe, "operations_count", "0")>>),
          Line("", <<>>) >>

\* for name in realistic_recipes
RECURSIVE DescribeRecipes(_, _)
DescribeRecipes(recipes, names) ==
    IF names = <<>> THEN <<>>
    ELSE DescribeRecipe(recipes, Head(names)) \o DescribeRecipes(recipes, Tail(names))

Banner == <<Line("Recipe Status Check", <<>>), Line("==============================", <<>>)>>

\* the branch taken when realistic_recipes is not empty
Found(recipes, realistic_recipes) ==
    <<Line("Realistic product recipes found:", <<>>)>>
    \o DescribeRecipes(recipes, realistic_recipes)
    \o <<Line("Ready to test! Run: python3 test_realistic_product.py", <<>>)>>

\* faulty variant: the diagnostic lists realistic_recipes in place of recipes.keys()
NotFoundRealistic(recipes) ==
    << Line("Realistic product recipes not found!", <<>>),
       Line("   Available recipes:", <<RealisticRecipes(recipes)>>),
       Line("   Please restart the server to load new recipes:", <<>>),
       Line("   Stop the server (Ctrl+C) and run: cargo run", <<>>) >>

\* the branch taken when it is empty
NotFound(recipes) ==
    << Line("Realistic product recipes not found!", <<>>),
       Line("   Available recipes:", <<Keys(recipes)>>),
       Line("   Please restart the server to load new recipes:", <<>>),
       Line("   Stop the server (Ctrl+C) and run: cargo run", <<>>) >>

\* the try block of check_recipes, given the outcome of requests.get
CheckRecipesBody(o) ==
    IF o.kind = "raise" THEN Ran(<<>>, o.exc, "None")
    ELSE IF o.status = 200 THEN
        IF ~IsJson(o) THEN Ran(<<>>, "JSONDecodeError", "None")
        ELSE IF o.body.val.type # "object" THEN Ran(Banner, "AttributeError", "None")
        ELSE LET recipes == o.body.val.fields
                 realistic_recipes == RealisticRecipes(recipes)
             IN IF realistic_recipes # <<>>
                THEN Ran(Banner \o Found(recipes, realistic_recipes), "None", "True")
                ELSE Ran(Banner \o NotFound(recipes), "None", "False")
    ELSE Ran(<<Line("Failed to connect: {status}", <<o.status>>)>>, "None", "False")

\* faulty variant: the ConnectionError clause is missing
CheckRecipesExceptAny(exc) == Ran(<<Line("Error: {e}", <<exc>>)>>, "None", "False")

\* the except clauses of check_recipes
CheckRecipesExcept(exc) ==
    IF exc = "ConnectionError"
    THEN Ran(<<Line("Server not running on port 3003. Start with: cargo run", <<>>)>>,
             "None", "False")
    ELSE Ran(<<Line("Error: {e}", <<exc>>)>>, "None", "False")

----------------------------------------------------------------------------
(* test_realistic_product.py: test_realistic_product_recipes *)

\* a JSON scalar, as the text of its literal: a string or an integer
JStr(s) == [t |-> "str", v |-> s]

JInt(digits) == [t |-> "int", v |-> digits]

Missing == [t |-> "missing"]

\* Python truthiness of result.get(key)
Truthy(x) ==
    CASE x.t = "missing" -> FALSE
      [] x.t = "str" -> x.v # ""
      [] x.t = "int" -> x.v # "0"

\* s[-n:]
LastN(s, n) == IF Len(s) <= n THEN s ELSE SubSeq(s, Len(s) - n + 1, Len(s))

\* faulty variant: the failure branch does not return
CreateStepFallsThrough(o) ==
    IF o.kind = "raise" THEN Ran(<<>>, o.exc, "None")
    ELSE IF o.status = 200 THEN
        IF ~IsJson(o)
        THEN Ran(<<Line("Product created successfully!", <<>>)>>, "JSONDecodeError", "None")
        ELSE Ran(<< Line("Product created successfully!", <<>>),
                    Line("   Result: ", <<o.body.val>>) >>, "None", "None")
    ELSE Ran(<< Line("Failed to create product: {status}", <<o.status>>),
                Line("   Error: ", <<o.body>>) >>, "None", "None")

CreateStep(o) ==
    IF o.kind = "raise" THEN Ran(<<>>, o.exc, "None")
    ELSE IF o.status = 200 THEN
        IF ~IsJson(o)
        THEN Ran(<<Line("Product created successfully!", <<>>)>>, "JSONDecodeError", "None")
        ELSE Ran(<< Line("Product created successfully!", <<>>),
                    Line("   Result: ", <<o.body.val>>) >>, "None", "None")
    ELSE Ran(<< Line("Failed to create product: {status}", <<o.status>>),
                Line("   Error: ", <<o.body>>) >>, "None", "False")

\* faulty variant: a missing key field fails the scenario
ValidateStrict(result) ==
    IF /\ Truthy(Get(result, "name", Missing))
       /\ Truthy(Get(result, "price", Missing))
       /\ Truthy(Get(result, "brand", Missing))
    THEN Ran(<<Line("Key fields validated successfully!", <<>>)>>, "None", "None")
    ELSE Ran(<<Line("Some key fields are missing or empty", <<>>)>>, "None", "False")

\* the check of the key fields of the product read back
Validate(result) ==
    IF /\ Truthy(Get(result, "name", Missing))
       /\ Truthy(Get(result, "price", Missing))
       /\ Truthy(Get(result, "brand", Missing))
    THEN Ran(<<Line("Key fields validated successfully!", <<>>)>>, "None", "None")
    ELSE Ran(<<Line("Some key fields are missing or empty", <<>>)>>, "None", "None")

\* faulty variant: a failed read is logged like a failed list, without returning
ReadStepFallsThrough(o) ==
    IF o.kind = "raise" THEN Ran(<<>>, o.exc, "None")
    ELSE IF o.status = 200 THEN
        IF ~IsJson(o)
        THEN Ran(<<Line("Product read successfully!", <<>>)>>, "JSONDecodeError", "None")
        ELSE LET result == o.body.val
                 printed == << Line("Product read successfully!", <<>>),
                               Line("   Retrieved product: ", <<result>>) >>
             IN IF result.type # "object" THEN Ran(printed, "AttributeError", "None")
                ELSE LET checked == Validate(result.fields)
                     IN Ran(printed \o checked.out, checked.exc, checked.ret)
    ELSE Ran(<< Line("Failed to read product: {status}", <<o.status>>),
                Line("   Error: ", <<o.body>>) >>, "None", "None")

ReadStep(o) ==
    IF o.kind = "raise" THEN Ran(<<>>, o.exc, "None")
    ELSE IF o.status = 200 THEN
        IF ~IsJson(o)
        THEN Ran(<<Line("Product read successfully!", <<>>)>>, "JSONDecodeError", "None")
        ELSE LET result == o.body.val
                 printed == << Line("Product read successfully!", <<>>),
                               Line("   Retrieved product: ", <<result>>) >>
             IN IF result.type # "object" THEN Ran(printed, "AttributeError", "None")
                ELSE LET checked == Validate(result.fields)
                     IN Ran(printed \o checked.out, checked.exc, checked.ret)
    ELSE Ran(<< Line("Failed to read product: {status}", <<o.status>>),
                Line("   Error: ", <<o.body>>) >>, "None", "False")

\* the lines printed for one entry of recipes.items()
ListRecipe(item) ==
    IF Contains(Marker, item.name)
    THEN << Line("   {name}: {description}",
                 <<item.name, Get(item.info, "description", "No description")>>),
            Line("      Inputs: ", <<Get(item.info, "inputs", <<>>)>>),
            Line("      Operations: ", <<Get(item.info, "operations_count", "0")>>) >>
    ELSE <<>>

\* for name, recipe in recipes.items()
RECURSIVE ListRecipes(_)
ListRecipes(items) ==
    IF items = <<>> THEN <<>> ELSE ListRecipe(Head(items)) \o ListRecipes(Tail(items))

ListStep(o) ==
    IF o.kind = "raise" THEN Ran(<<>>, o.exc, "None")
    ELSE IF o.status = 200 THEN
        IF ~IsJson(o) THEN Ran(<<>>, "JSONDecodeError", "None")
        ELSE IF o.body.val.type # "object"
        THEN Ran(<<Line("Available recipes:", <<>>)>>, "AttributeError", "None")
        ELSE Ran(<<Line("Available recipes:", <<>>)>> \o ListRecipes(o.body.val.fields),
                 "None", "None")
    ELSE Ran(<<Line("Failed to list recipes: {status}", <<o.status>>)>>, "None", "None")

\* product_data["id"] in tx.get("from_account", "") or ... in tx.get("to_account", "")
IsProductTransaction(tx) ==
    \/ Contains(ProductId, Get(tx, "from_account", ""))
    \/ Contains(ProductId, Get(tx, "to_account", ""))

ProductTransactions(history) == SelectSeq(history, IsProductTransaction)

\* the body of the display loop for one record: tx['...'] raises KeyError
ShowTransaction(i, tx) ==
    IF {"from_account", "to_account", "amount"} \subseteq DOMAIN tx
    THEN Ran(<<Line("      {i}. {from_account} -> {to_account} ({amount})",
                    <<i, tx.from_account, tx.to_account, tx.amount>>)>>
             \o (IF Get(tx, "metadata", "") # ""
                 THEN <<Line("         Metadata: ", <<tx.metadata>>)>>
                 ELSE <<>>),
             "None", "None")
    ELSE Ran(<<>>, "KeyError", "None")

\* for i, tx in enumerate(shown): the loop ends at the first record that raises
RECURSIVE ShowFrom(_, _)
ShowFrom(i, shown) ==
    IF i > Len(shown) THEN Ran(<<>>, "None", "None")
    ELSE LET one == ShowTransaction(i, shown[i])
         IN IF one.exc # "None" THEN one
            ELSE LET rest == ShowFrom(i + 1, shown)
                 IN Ran(one.out \o rest.out, rest.exc, "None")

Shown == 5

HistoryStep(o) ==
    IF o.kind = "raise" THEN Ran(<<>>, o.exc, "None")
    ELSE IF o.status = 200 THEN
        IF ~IsJson(o) THEN Ran(<<>>, "JSONDecodeError", "None")
        ELSE IF o.body.val.type # "array" THEN Ran(<<>>, "TypeError", "None")
        ELSE LET history == o.body.val.items
                 product_transactions == ProductTransactions(history)
                 shown == ShowFrom(1, LastN(product_transactions, Shown))
                 printed == << Line("Transaction history contains {} transactions",
                                    <<Len(history)>>),
                               Line("   Found {} transactions for our product:",
                                    <<Len(product_transactions)>>) >> \o shown.out
             IN IF shown.exc # "None" THEN Ran(printed, shown.exc, "None")
                ELSE Ran(Append(printed, Line("All tests completed successfully!", <<>>)),
                         "None", "True")
    ELSE Ran(<< Line("Failed to get history: {status}", <<o.status>>),
                Line("All tests completed successfully!", <<>>) >>, "None", "True")

\* the except clauses of test_realistic_product_recipes
RealisticExcept(exc) ==
    IF exc = "ConnectionError"
    THEN Ran(<< Line("Connection error: Make sure the Pure Accounting Server is running on port 3003", <<>>),
                Line("   Start it with: cd tensorzero/pure-accounting-server && cargo run", <<>>) >>,
             "None", "False")
    ELSE Ran(<<Line("Unexpected error: {e}", <<exc>>)>>, "None", "False")

----------------------------------------------------------------------------
(* Python integers and floats.  An int has any size: it is held as the     *)
(* sequence of its decimal digits, most significant first, zero as <<>>.   *)
(* A float is an IEEE double: m * 2^e with m below 2^53.                   *)

DigitChars == <<"0", "1", "2", "3", "4", "5", "6", "7", "8", "9">>

IsDigit(ch) == \E d \in 1..10 : DigitChars[d] = ch

DigitOf(ch) == (CHOOSE d \in 1..10 : DigitChars[d] = ch) - 1

\* without leading zeros
Strip(n) ==
    IF \A i \in 1..Len(n) : n[i] = 0 THEN <<>>
    ELSE SubSeq(n, CHOOSE i \in 1..Len(n) : n[i] # 0 /\ \A j \in 1..(i - 1) : n[j] = 0, Len(n))

\* the characters int() accepts here: a non-empty run of decimal digits
IsDecimal(s) == s # "" /\ \A i \in 1..Len(s) : IsDigit(SubSeq(s, i, i))

Parse(s) == Strip([i \in 1..Len(s) |-> DigitOf(SubSeq(s, i, i))])

\* 2 * n: the carry into a digit is 1 exactly when the digit below it is 5 or more
Double(n) ==
    LET carry(i) == IF i <= Len(n) /\ n[i] >= 5 THEN 1 ELSE 0
        low == [i \in 1..Len(n) |-> (2 * n[i] + carry(i + 1)) % 10]
    IN IF carry(1) = 1 THEN <<1>> \o low ELSE <<>> \o low

\* n div 2: the remainder carried into a digit is the parity of the digit above it
Halve(n) ==
    LET rem(i) == IF i >= 1 THEN n[i] % 2 ELSE 0
    IN Strip([i \in 1..Len(n) |-> (10 * rem(i - 1) + n[i]) \div 2])

IsOdd(n) == n # <<>> /\ n[Len(n)] % 2 = 1

\* n + 1: the trailing nines turn to zeros and the digit above them goes up
Succ(n) ==
    IF \A i \in 1..Len(n) : n[i] = 9 THEN <<1>> \o [i \in 1..Len(n) |-> 0]
    ELSE LET k == CHOOSE i \in 1..Len(n) : n[i] # 9 /\ \A j \in (i + 1)..Len(n) : n[j] = 9
         IN <<>> \o [i \in 1..Len(n) |-> IF i < k THEN n[i] ELSE IF i = k THEN n[i] + 1 ELSE 0]

Less(a, b) ==
    \/ Len(a) < Len(b)
    \/ /\ Len(a) = Len(b)
       /\ \E i \in 1..Len(a) : a[i] < b[i] /\ \A j \in 1..(i - 1) : a[j] = b[j]

Times100(n) == IF n = <<>> THEN <<>> ELSE n \o <<0, 0>>

Div100(n) == IF Len(n) <= 2 THEN <<>> ELSE SubSeq(n, 1, Len(n) - 2)

Mod100(n) ==
    IF n = <<>> THEN 0
    ELSE IF Len(n) = 1 THEN n[1]
    ELSE 10 * n[Len(n) - 1] + n[Len(n)]

RECURSIVE ToStr(_)
ToStr(n) == IF n = <<>> THEN "" ELSE DigitChars[Head(n) + 1] \o ToStr(Tail(n))

\* 100 * 2^52: a quotient n / 100 with n from here up to twice this has 53 bits
MantissaLow == Parse("450359962737049600")

MantissaHigh == Double(MantissaLow)

\* The loops below bind each iteration's values with a quantifier over a
\* singleton, so that an iteration works on values and not on the unevaluated
\* expressions of the iterations before it.
RECURSIVE ScaleUp(_, _)
ScaleUp(n, e) ==
    IF Less(n, MantissaLow)
    THEN CHOOSE r \in {ScaleUp(d, f) : d \in {Double(n)}, f \in {e - 1}} : TRUE
    ELSE [n |-> n, e |-> e]

RECURSIVE ScaleDown(_, _, _)
ScaleDown(n, e, sticky) ==
    IF Less(n, MantissaHigh) THEN [n |-> n, e |-> e, sticky |-> sticky]
    ELSE CHOOSE r \in {ScaleDown(h, f, s) : h \in {Halve(n)}, f \in {e + 1},
                                              s \in {sticky \/ IsOdd(n)}} : TRUE

\* faulty variant: truncation in place of rounding
RoundDown(q, half, sticky) == q

\* round to nearest, ties to even: q is the truncated value, `half` the first
\* bit cut off, `sticky` whether any later bit cut off is set
RoundHalfEven(q, half, sticky) ==
    IF half /\ (sticky \/ IsOdd(q)) THEN Succ(q) ELSE q

\* int / 100: the double nearest to the quotient
TrueDivide100(c) ==
    IF c = <<>> THEN [m |-> <<>>, e |-> 0]
    ELSE LET up == ScaleUp(c, 0)
             dn == ScaleDown(up.n, up.e, FALSE)
             r == Mod100(dn.n)
         IN [m |-> RoundHalfEven(Div100(dn.n), r >= 50, r > 50 \/ dn.sticky),
             e |-> dn.e]

RECURSIVE ShiftLeft(_, _)
ShiftLeft(n, k) ==
    IF k = 0 THEN n
    ELSE CHOOSE r \in {ShiftLeft(d, j) : d \in {Double(n)}, j \in {k - 1}} : TRUE

RECURSIVE ShiftRight(_, _, _, _)
ShiftRight(n, k, half, sticky) ==
    IF k = 0 THEN RoundHalfEven(n, half, sticky)
    ELSE CHOOSE r \in {ShiftRight(h, j, b, s) : h \in {Halve(n)}, j \in {k - 1},
                                                b \in {IsOdd(n)},
                                                s \in {sticky \/ half}} : TRUE

\* integer part, '.', two digits
Cents(h) ==
    (IF Div100(h) = <<>> THEN "0" ELSE ToStr(Div100(h)))
    \o "." \o DigitChars[(Mod100(h) \div 10) + 1] \o DigitChars[(Mod100(h) % 10) + 1]

\* f"{x:.2f}": the exact value of the double, rounded to hundredths, ties to even
Format2f(x) ==
    Cents(IF x.e >= 0 THEN ShiftLeft(Times100(x.m), x.e)
          ELSE ShiftRight(Times100(x.m), 0 - x.e, FALSE, FALSE))

----------------------------------------------------------------------------
(* test_realistic_product.py: test_second_product *)

\* int(x) of a JSON integer or string; ValueError for a string that is no integer
IntOf(x) == IF x.t = "str" /\ ~IsDecimal(x.v) THEN "ValueError" ELSE Parse(x.v)

SecondCreateStep(o) ==
    IF o.kind = "raise" THEN Ran(<<>>, o.exc, "None")
    ELSE IF o.status = 200
    THEN Ran(<<Line("iPhone created successfully!", <<>>)>>, "None", "None")
    ELSE Ran(<<Line("Failed to create iPhone: ", <<o.body>>)>>, "None", "False")

SecondReadStep(o) ==
    IF o.kind = "raise" THEN Ran(<<>>, o.exc, "None")
    ELSE IF o.status = 200 THEN
        IF ~IsJson(o) THEN Ran(<<>>, "JSONDecodeError", "None")
        ELSE IF o.body.val.type # "object" THEN Ran(<<>>, "AttributeError", "None")
        ELSE LET result == o.body.val.fields
                 printed == << Line("iPhone data retrieved: ",
                                    <<Get(result, "name", JStr("Unknown"))>>),
                               Line("   Brand: ", <<Get(result, "brand", JStr("Unknown"))>>) >>
                 price == IntOf(Get(result, "price", JInt("0")))
             IN IF price = "ValueError" THEN Ran(printed, "ValueError", "None")
                ELSE Ran(Append(printed,
                                Line("   Price: $", <<Format2f(TrueDivide100(price))>>)),
                         "None", "True")
    ELSE Ran(<<Line("Failed to read iPhone: ", <<o.body>>)>>, "None", "False")

\* faulty variant: the clause catches ValueError only
SecondExceptValueError(exc) ==
    IF exc = "ValueError"
    THEN Ran(<<Line("Error testing iPhone: {e}", <<exc>>)>>, "None", "False")
    ELSE Ran(<<>>, exc, "None")

\* the except clause of test_second_product
SecondExcept(exc) == Ran(<<Line("Error testing iPhone: {e}", <<exc>>)>>, "None", "False")

----------------------------------------------------------------------------
(* The bodies a 200 response may carry, per endpoint *)

Without(r, key) == [k \in DOMAIN r \ {key} |-> r[k]]

CreateBodies == {NotJson, Json(Object([success |-> JStr("true")]))}

Laptop == [name |-> JStr("MSI GP66 Leopard Gaming Laptop"), price |-> JStr("189999"),
           brand |-> JStr("MSI")]

ReadResults ==
    {Laptop, <<>>, [Laptop EXCEPT !.price = JInt("0")]}
    \cup {Without(Laptop, key) : key \in DOMAIN Laptop}
    \cup {[Laptop EXCEPT ![key] = JStr("")] : key \in DOMAIN Laptop}

ReadBodies == {NotJson, Json(Array(<<>>))} \cup {Json(Object(r)) : r \in ReadResults}

\* records with every field the display reads
Ledgered ==
    << [from_account |-> "system:genesis",
        to_account |-> "product:prod_laptop_gaming_001:existence",
        amount |-> "1", metadata |-> "create_realistic_product"],
       [from_account |-> "product:prod_laptop_gaming_001:price",
        to_account |-> "system:void", amount |-> "189999"],
       [from_account |-> "system:genesis",
        to_account |-> "product:prod_laptop_gaming_00:existence",
        amount |-> "1", metadata |-> ""] >>

\* and records lacking one of them
Transactions ==
    {Ledgered[i] : i \in 1..Len(Ledgered)} \cup
    { [to_account |-> "product:prod_laptop_gaming_001:name", amount |-> "1"],
      [from_account |-> "product:prod_laptop_gaming_001:brand", amount |-> "1"],
      [from_account |-> "product:prod_laptop_gaming_001:sku",
       to_account |-> "system:void"] }

\* n well-formed records, in rotation
Ledger(n) == [i \in 1..n |-> Ledgered[(i % Len(Ledgered)) + 1]]

HistoryBodies ==
    {NotJson, Json([type |-> "null"])}
    \cup {Json(Array(h)) : h \in SeqsUpTo(Transactions, MaxHistory)}
    \cup {Json(Array(Ledger(n))) : n \in (MaxHistory + 1)..MaxLedger}

\* the decimal literal of a small number
Decimal(k) == IF k = 0 THEN "0" ELSE ToStr(Strip(<<k \div 100, (k \div 10) % 10, k % 10>>))

PriceLiterals ==
    {Decimal(k) : k \in 0..MaxCents}
    \cup {"99", "100", "101", "119999", "7036874417766400", "7036874417766401",
          "450359962737049600", "900719925474099301"}

Prices ==
    {JStr(d) : d \in PriceLiterals} \cup {JInt(d) : d \in PriceLiterals}
    \cup {JStr(""), JStr("1199.99")}

Iphone == [name |-> JStr("Apple iPhone 15 Pro"), brand |-> JStr("Apple")]

SecondReadResults == {<<>>, Iphone} \cup {[k \in {"name", "brand", "price"} |->
                                             IF k = "price" THEN p ELSE Iphone[k]] : p \in Prices}

SecondReadBodies == {NotJson, Json(Array(<<>>))} \cup {Json(Object(r)) : r \in SecondReadResults}

\* every outcome of the call that sent `req`
Outcomes(req) ==
    Raises \cup Failures \cup
    { Response(200, b) : b \in
        CASE req.url = SERVER_URL \o "/recipes" -> RecipeBodies
          [] req.url = SERVER_URL \o "/transactions" -> HistoryBodies
          [] req.url = SERVER_URL \o "/recipe/create_realistic_product" -> CreateBodies
          [] req.url = SERVER_URL \o "/recipe/read_realistic_product" ->
                IF req.json = ProductId THEN ReadBodies ELSE SecondReadBodies }

----------------------------------------------------------------------------
(* The scenario functions as state machines *)

Functions == {"check_recipes", "test_realistic_product_recipes", "test_second_product"}

FirstCall(f) == IF f = "check_recipes" THEN "recipes" ELSE "create"

RequestsGet(url) == [method |-> "GET", url |-> SERVER_URL \o url, json |-> ""]

RequestsPost(url, id) == [method |-> "POST", url |-> SERVER_URL \o url, json |-> id]

\* the request the function sends at pc
RequestAt(f, p) ==
    CASE p = "recipes" -> RequestsGet("/recipes")
      [] p = "list" -> RequestsGet("/recipes")
      [] p = "history" -> RequestsGet("/transactions")
      [] p = "create" -> RequestsPost("/recipe/create_realistic_product",
                              IF f = "test_second_product" THEN IphoneId ELSE ProductId)
      [] p = "read" -> RequestsPost("/recipe/read_realistic_product",
                            IF f = "test_second_product" THEN IphoneId ELSE ProductId)

Rule == "=================================================="

\* the lines printed on the way to the call at pc
Announce(f, p) ==
    CASE f = "check_recipes" -> <<>>
      [] f = "test_second_product" /\ p = "create" ->
            <<Line(Rule, <<>>), Line("Testing with iPhone 15 Pro data...", <<>>)>>
      [] f = "test_second_product" /\ p = "read" -> <<>>
      [] f = "test_realistic_product_recipes" /\ p = "create" ->
            << Line("Testing Realistic Product Recipes", <<>>), Line(Rule, <<>>),
               Line("Test 1: Creating realistic product...", <<>>) >>
      [] f = "test_realistic_product_recipes" /\ p = "read" ->
            <<Line("Test 2: Reading realistic product...", <<>>)>>
      [] f = "test_realistic_product_recipes" /\ p = "list" ->
            <<Line("Test 3: Listing all available recipes...", <<>>)>>
      [] f = "test_realistic_product_recipes" /\ p = "history" ->
            <<Line("Test 4: Checking transaction history...", <<>>)>>

Init ==
    /\ fn \in Functions
    /\ pc = FirstCall(fn)
    /\ net = NoRequest
    /\ reply = NoReply
    /\ sent = <<>>
    /\ replies = <<>>
    /\ out = <<>>
    /\ ret = "None"
    /\ raised = "None"

\* requests.get / requests.post: the request leaves and the function blocks
Call ==
    /\ pc # "done"
    /\ net = NoRequest
    /\ reply = NoReply
    /\ net' = RequestAt(fn, pc)
    /\ sent' = Append(sent, RequestAt(fn, pc))
    /\ out' = out \o Announce(fn, pc)
    /\ UNCHANGED <<fn, pc, reply, replies, ret, raised>>

\* the server answers the request in flight, or the call fails
Serve ==
    /\ net # NoRequest
    /\ \E o \in Outcomes(net) : reply' = o
    /\ net' = NoRequest
    /\ UNCHANGED <<fn, pc, sent, replies, out, ret, raised>>

\* the code from the return of the call to the next call or the return
Resume(r, next) ==
    /\ reply # NoReply
    /\ out' = out \o r.out
    /\ replies' = Append(replies, reply)
    /\ reply' = NoReply
    /\ ret' = r.ret
    /\ raised' = r.exc
    /\ pc' = IF r.ret = "None" /\ r.exc = "None" THEN next ELSE "done"
    /\ UNCHANGED <<fn, net, sent>>

CheckRecipes ==
    /\ fn = "check_recipes" /\ pc = "recipes"
    /\ LET body == CheckRecipesBody(reply)
       IN Resume(Try(body, CheckRecipesExcept(body.exc)), "done")

Create ==
    /\ fn = "test_realistic_product_recipes" /\ pc = "create"
    /\ LET body == CreateStep(reply)
       IN Resume(Try(body, RealisticExcept(body.exc)), "read")

Read ==
    /\ fn = "test_realistic_product_recipes" /\ pc = "read"
    /\ LET body == ReadStep(reply)
       IN Resume(Try(body, RealisticExcept(body.exc)), "list")

List ==
    /\ fn = "test_realistic_product_recipes" /\ pc = "list"
    /\ LET body == ListStep(reply)
       IN Resume(Try(body, RealisticExcept(body.exc)), "history")

History ==
    /\ fn = "test_realistic_product_recipes" /\ pc = "history"
    /\ LET body == HistoryStep(reply)
       IN Resume(Try(body, RealisticExcept(body.exc)), "done")

SecondCreate ==
    /\ fn = "test_second_product" /\ pc = "create"
    /\ LET body == SecondCreateStep(reply)
       IN Resume(Try(body, SecondExcept(body.exc)), "read")

SecondRead ==
    /\ fn = "test_second_product" /\ pc = "read"
    /\ LET body == SecondReadStep(reply)
       IN Resume(Try(body, SecondExcept(body.exc)), "done")

Next ==
    \/ Call \/ Serve
    \/ CheckRecipes
    \/ Create \/ Read \/ List \/ History
    \/ SecondCreate \/ SecondRead

Spec == Init /\ [][Next]_vars

----------------------------------------------------------------------------
(* Reading a run: what was received, what was printed *)

Realistic == fn = "test_realistic_product_recipes"

Checker == fn = "check_recipes"

Second == fn = "test_second_product"

Ok200(o) == o.kind = "response" /\ o.status = 200

Non200(o) == o.kind = "response" /\ o.status # 200

ConnectionRefused(o) == o.kind = "raise" /\ o.exc = "ConnectionError"

Printed(text) == \E i \in 1..Len(out) : out[i].text = text

LinesOf(text) == SelectSeq(out, LAMBDA l : l.text = text)

\* a 200 response whose body decodes to a JSON object / array
IsObject(o) == Ok200(o) /\ o.body.json /\ o.body.val.type = "object"

IsArray(o) == Ok200(o) /\ o.body.json /\ o.body.val.type = "array"

KeysOf(o) == [i \in 1..Len(o.body.val.fields) |-> o.body.val.fields[i].name]

HasMarker(name) == Contains("realistic", name)

\* an except clause of test_realistic_product_recipes has printed
ExceptLogged ==
    \/ Printed("Connection error: Make sure the Pure Accounting Server is running on port 3003")
    \/ Printed("Unexpected error: {e}")

----------------------------------------------------------------------------
(* C1 *)

\* C1 as stated: whenever test_realistic_product_recipes has returned after any
\* of its four endpoints answered with a status other than 200, it returned False.
C1_AnyNon200Fails ==
    (Realistic /\ pc = "done" /\ \E i \in 1..Len(replies) : Non200(replies[i]))
        => ret = "False"

\* C1 as amended: a non-200 status from create (call 1) or read (call 2) ends the
\* scenario at that call with False and no further request; a non-200 status from
\* list recipes (call 3) or transaction history (call 4) is only logged: after a
\* failed list the scenario goes on to the history call, and after a failed
\* history call it returns True.
C1_Non200FatalOnlyForCreateAndRead ==
    Realistic =>
        \A i \in 1..Len(replies) : Non200(replies[i]) =>
            CASE i <= 2 ->
                    /\ pc = "done" /\ ret = "False"
                    /\ Len(replies) = i /\ Len(sent) = i
                    /\ Printed(IF i = 1 THEN "Failed to create product: {status}"
                               ELSE "Failed to read product: {status}")
              [] i = 3 ->
                    /\ Printed("Failed to list recipes: {status}")
                    /\ pc = "history" \/ Len(sent) = 4
                    /\ Len(replies) = 3 => ret = "None"
              [] i = 4 ->
                    /\ Printed("Failed to get history: {status}")
                    /\ pc = "done" /\ ret = "True"

C1_Witness ==
    /\ Realistic /\ pc = "done" /\ Len(replies) = 4
    /\ Non200(replies[3]) /\ Non200(replies[4])
    /\ ret = "True"

----------------------------------------------------------------------------
(* C2 *)

\* C2: once create and read have succeeded (the list call was reached), the
\* scenario returns True whatever list of transaction records the history
\* endpoint returns with status 200, records lacking from_account, to_account
\* or amount included.
C2_HistoryDoesNotAffectResult ==
    (Realistic /\ pc = "done" /\ Len(replies) = 4 /\ IsArray(replies[4]))
        => ret = "True"

----------------------------------------------------------------------------
(* C3 *)

\* the recipe names check_recipes enumerates, in the order printed
Enumerated ==
    LET ls == LinesOf("   {name}") IN [i \in 1..Len(ls) |-> ls[i].args[1]]

----------------------------------------------------------------------------
(* C4 *)

\* C4: a status-200 mapping none of whose keys contains "realistic" (the empty
\* mapping included) makes check_recipes return False with a diagnostic that
\* lists every key of the mapping.
C4_NoMatchListsAllKeys ==
    (Checker /\ pc = "done" /\ IsObject(replies[1])
             /\ \A i \in 1..Len(KeysOf(replies[1])) : ~HasMarker(KeysOf(replies[1])[i]))
        => /\ ret = "False"
           /\ Len(LinesOf("   Available recipes:")) = 1
           /\ LinesOf("   Available recipes:")[1].args = <<KeysOf(replies[1])>>

C4_Witness ==
    /\ Checker /\ pc = "done" /\ ret = "False" /\ IsObject(replies[1])
    /\ Len(KeysOf(replies[1])) = 2
    /\ Printed("   Available recipes:")

----------------------------------------------------------------------------
(* C5 *)

InProduct(tx) ==
    \E f \in {"from_account", "to_account"} :
        f \in DOMAIN tx /\ Contains("prod_laptop_gaming_001", tx[f])

Field(tx, f) == IF f \in DOMAIN tx THEN tx[f] ELSE ""

\* the display of the history step matches `view`: its count is printed and
\* its last five records (all when fewer) are the records shown, in order
DisplayIs(view) ==
    LET last == IF Len(view) <= 5 THEN view ELSE SubSeq(view, Len(view) - 4, Len(view))
        shown == LinesOf("      {i}. {from_account} -> {to_account} ({amount})")
        count == LinesOf("   Found {} transactions for our product:")
    IN /\ Len(count) = 1 /\ count[1].args = <<Len(view)>>
       /\ Len(shown) = Len(last)
       /\ \A i \in 1..Len(shown) :
              shown[i].args = <<i, Field(last[i], "from_account"),
                                Field(last[i], "to_account"), Field(last[i], "amount")>>

\* C5: for every transaction history list, the product_transactions view holds
\* exactly the records whose from_account or to_account contains the product
\* identifier, in their order, and the records displayed are its last five.
C5_ViewAndLastFive ==
    (Realistic /\ Len(replies) = 4 /\ IsArray(replies[4]))
        => DisplayIs(SelectSeq(replies[4].body.val.items, InProduct))

\* the same for the lists whose records all carry from_account, to_account and amount
C5_CompleteRecords ==
    (Realistic /\ Len(replies) = 4 /\ IsArray(replies[4])
        /\ \A i \in 1..Len(replies[4].body.val.items) :
               {"from_account", "to_account", "amount"}
                   \subseteq DOMAIN replies[4].body.val.items[i])
        => DisplayIs(SelectSeq(replies[4].body.val.items, InProduct))

----------------------------------------------------------------------------
(* C6 *)

\* C6: in check_recipes, test_realistic_product_recipes and test_second_product
\* alike, no exception ever leaves the function, and a ConnectionError raised by
\* any of its HTTP calls ends it there with the return value False.
C6_ConnectionErrorBecomesFalse ==
    /\ raised = "None"
    /\ \A i \in 1..Len(replies) : ConnectionRefused(replies[i]) =>
           /\ pc = "done" /\ ret = "False"
           /\ Len(replies) = i /\ Len(sent) = i

C6_Witness ==
    /\ Second /\ pc = "done" /\ Len(replies) = 2
    /\ ConnectionRefused(replies[2])
    /\ ret = "False" /\ raised = "None"

----------------------------------------------------------------------------
(* C7 *)

\* the read step returned 200 with a result whose name, price or brand is
\* missing or empty
KeyFieldMissing(o) ==
    /\ IsObject(o)
    /\ \E k \in {"name", "price", "brand"} :
           k \notin DOMAIN o.body.val.fields \/ o.body.val.fields[k].v = ""

\* C7: after such a read the scenario only logs a warning: it goes on to the
\* list call and from there to the history call, and it returns False only if
\* a later step raised (an except clause printed); otherwise it returns True
\* after all four calls.
C7_MissingFieldOnlyWarns ==
    (Realistic /\ Len(replies) >= 2 /\ KeyFieldMissing(replies[2])) =>
        /\ Printed("Some key fields are missing or empty")
        /\ Len(replies) = 2 => pc = "list" /\ ret = "None" /\ raised = "None"
        /\ pc = "done" => Len(sent) >= 3
        /\ (pc = "done" /\ ~ExceptLogged) => Len(sent) = 4 /\ ret = "True"
        /\ ret = "False" => ExceptLogged

C7_Witness ==
    /\ Realistic /\ pc = "done" /\ Len(replies) = 4
    /\ KeyFieldMissing(replies[2])
    /\ "brand" \notin DOMAIN replies[2].body.val.fields
    /\ ret = "True"

----------------------------------------------------------------------------
(* C8 *)

\* the stored price is a non-negative integer of cents: a JSON integer or the
\* decimal string of one
HasCents(o) ==
    /\ IsObject(o)
    /\ "price" \in DOMAIN o.body.val.fields
    /\ o.body.val.fields.price.v # ""
    /\ \A i \in 1..Len(o.body.val.fields.price.v) :
           \E d \in 1..10 : DigitChars[d] = SubSeq(o.body.val.fields.price.v, i, i)

CentsOf(o) == o.body.val.fields.price.v

\* floor(c / 100), '.', the two digits of c mod 100, from the decimal digits of c
Exact(c) ==
    LET digits == Strip([i \in 1..Len(c) |-> DigitOf(SubSeq(c, i, i))])
        padded == IF Len(digits) >= 3 THEN digits
                  ELSE [i \in 1..3 |-> IF i <= 3 - Len(digits) THEN 0
                                       ELSE digits[i - (3 - Len(digits))]]
        n == Len(padded)
    IN ToStr(SubSeq(padded, 1, n - 2)) \o "." \o ToStr(SubSeq(padded, n - 1, n))

\* the price line of test_second_product shows exactly `text`
PriceShown(text) ==
    /\ Len(LinesOf("   Price: $")) = 1
    /\ LinesOf("   Price: $")[1].args = <<text>>

\* C8 as stated: every stored price of c cents, c a non-negative integer, is
\* displayed as floor(c / 100), '.', and the two digits of c mod 100.
C8_EveryPriceExact ==
    (Second /\ pc = "done" /\ Len(replies) = 2 /\ HasCents(replies[2]))
        => PriceShown(Exact(CentsOf(replies[2])))

\* 100 * 2^46: up to here the double nearest to c / 100 is within half a
\* hundredth of it
ExactUpTo == Parse("7036874417766400")

\* C8 as amended: the same for every c from 0 to 7036874417766400 (100 * 2^46);
\* above it the double nearest to c / 100 can round to another hundredth
\* (7036874417766401 is displayed as 70368744177664.02).
C8_PriceExactBelowDoublePrecision ==
    (Second /\ pc = "done" /\ Len(replies) = 2 /\ HasCents(replies[2])
            /\ ~Less(ExactUpTo, Parse(CentsOf(replies[2]))))
        => /\ ret = "True"
           /\ PriceShown(Exact(CentsOf(replies[2])))

C8_Witness ==
    /\ Second /\ pc = "done" /\ Len(replies) = 2 /\ HasCents(replies[2])
    /\ CentsOf(replies[2]) = "119999"
    /\ replies[2].body.val.fields.price.t = "str"
    /\ PriceShown("1199.99")

----------------------------------------------------------------------------
(* C9 *)

\* the failure classes of check_recipes, by the outcome of its one request
FailureClass(o) ==
    CASE ConnectionRefused(o) -> "connection refused"
      [] Non200(o) -> "status"
      [] IsObject(o) -> "no matching recipe"
      [] OTHER -> "other exception"

Diagnostic ==
    [c \in {"no matching recipe", "status", "connection refused", "other exception"} |->
        CASE c = "no matching recipe" -> "Realistic product recipes not found!"
          [] c = "status" -> "Failed to connect: {status}"
          [] c = "connection refused" -> "Server not running on port 3003. Start with: cargo run"
          [] c = "other exception" -> "Error: {e}"]

\* the diagnostics printed by the run
Diagnosed == {c \in DOMAIN Diagnostic : Printed(Diagnostic[c])}

\* C9 as stated: a failing check_recipes has sent exactly one request and its
\* failure is one of three classes: no matching recipe, a status other than
\* 200, connection refused, each with its own diagnostic.
C9_ThreeFailureClasses ==
    (Checker /\ pc = "done" /\ ret = "False") =>
        /\ Len(sent) = 1
        /\ FailureClass(replies[1]) \in {"no matching recipe", "status", "connection refused"}
        /\ Diagnosed = {FailureClass(replies[1])}

\* C9 as amended: a failing check_recipes has sent exactly one request (it never
\* sends a second) and its failure is one of four classes, each with a
\* diagnostic of its own: the three of the claim, and (d) any other exception
\* (another failure of the call, or a 200 body that is not a JSON mapping),
\* reported as "Error: <exception>".
C9_FourFailureClasses ==
    Checker =>
        /\ Len(sent) <= 1
        /\ (pc = "done" /\ ret = "False") =>
              /\ Len(sent) = 1 /\ Len(replies) = 1
              /\ Diagnosed = {FailureClass(replies[1])}
        /\ \A c, d \in DOMAIN Diagnostic : Diagnostic[c] = Diagnostic[d] => c = d

C9_Witness ==
    /\ Checker /\ pc = "done" /\ ret = "False"
    /\ Ok200(replies[1]) /\ ~replies[1].body.json
    /\ Diagnosed = {"other exception"}

----------------------------------------------------------------------------
(* C10 *)

Order ==
    << [method |-> "POST", url |-> "http://localhost:3003/recipe/create_realistic_product",
        json |-> "prod_laptop_gaming_001"],
       [method |-> "POST", url |-> "http://localhost:3003/recipe/read_realistic_product",
        json |-> "prod_laptop_gaming_001"],
       [method |-> "GET", url |-> "http://localhost:3003/recipes", json |-> ""],
       [method |-> "GET", url |-> "http://localhost:3003/transactions", json |-> ""] >>

\* the call ended the run: it raised, or it is create or read and its status
\* is not 200
Fatal(i) == replies[i].kind = "raise" \/ (i <= 2 /\ Non200(replies[i]))

\* C10: test_realistic_product_recipes sends create, read, list recipes and
\* transaction history in this order, each only after the call before it has
\* returned; after a fatal step no request is sent any more, so read is sent
\* only after create answered 200.
C10_RequestsInOrder ==
    Realistic =>
        /\ Len(sent) <= 4 /\ sent = SubSeq(Order, 1, Len(sent))
        /\ Len(sent) = Len(replies) + (IF net # NoRequest \/ reply # NoReply THEN 1 ELSE 0)
        /\ net # NoRequest => net = sent[Len(sent)] /\ reply = NoReply
        /\ \A i \in 1..Len(replies) : Fatal(i) =>
               Len(sent) = i /\ pc = "done" /\ net = NoRequest /\ ret = "False"
        /\ Len(sent) >= 2 => Ok200(replies[1])
        /\ ret # "None" => pc = "done" /\ net = NoRequest /\ reply = NoReply

C10_Witness ==
    /\ Realistic /\ pc = "done" /\ ret = "True"
    /\ sent = Order /\ Len(replies) = 4

====
